---- MODULE Spec2Model ----
(***************************************************************************)
(* Social-Hub-Chirp: the session holder (App.jsx), the auth form           *)
(* (components/Auth.jsx) and the feed view (components/PostFeed.jsx), with *)
(* the hosted backend (auth service, posts/profiles tables, realtime       *)
(* change feed) as the environment they talk to.                           *)
(*                                                                         *)
(* JavaScript runs one handler at a time up to its next await, so every    *)
(* action below is one such run: an event handler up to its first await,   *)
(* the backend serving a request, or the continuation after an await.      *)
(* Strings are sequences of characters (drafts, e-mails) or of words       *)
(* (messages); JS null is the empty sequence Null, a state the components  *)
(* never confuse with "" because they never store an empty message.        *)
(***************************************************************************)
EXTENDS Integers, Sequences, FiniteSets, Bags, TLC

\* ------------------------------------------------------------------ bounds
MaxActs == 2       \* requests the user starts and statements of other clients

\* --------------------------------------------------------------- constants
Null == <<>>
NoUser == "none"
Users == {"u1"}              \* the accounts of the auth service
Authors == {"u1", "u2"}      \* the users whose posts the table holds

\* The e-mail address of each account, as characters.
EmailOf(u) == IF u = "u1" THEN <<"a", "@", "b">> ELSE <<"c", "@", "d">>
Emails == {EmailOf(u) : u \in Users}
UserOfEmail(e) == CHOOSE u \in Users : EmailOf(u) = e
Passwords == {"secret1", "wrong"}
PasswordOf(u) == "secret1"

SampleContent == <<"Check out my first post!">>
Drafts == {<<>>, <<" ", " ">>, <<"h", "i">>}
OtherContent == <<"y", "o">>             \* what another client posts
EditedContent == <<"e", "d", "i", "t">>  \* what another client's update writes

ReloadPrompt == <<"Failed", "to", "load", "posts.", "Please", "refresh", "the", "page.">>
CreateFailed == <<"Failed", "to", "create", "post.", "Please", "try", "again.">>
SampleFailed == <<"Failed", "to", "create", "sample", "post">>
AuthFailed == <<"Authentication", "failed">>
VerificationSent == <<"Verification", "sent", "to", "email!", "Please", "check", "your", "inbox.">>
RlsPattern == <<"row-level", "security", "policy">>

\* Messages the backend's errors carry.
InvalidLogin == <<"Invalid", "login", "credentials">>
RlsDenied == <<"new", "row", "violates", "row-level", "security", "policy">>
NetworkError == <<"Failed", "to", "fetch">>
InvalidFormat == <<"Invalid", "data", "format", "received">>
FetchFailures == {"error", "null", "object"}  \* fetchError, or data that is no array
ErrorMessages == {InvalidLogin, RlsDenied, <<>>}
StoreErrorMessages == {RlsDenied, <<>>}

\* ------------------------------------------------------------------- state
VARIABLES
  \* backend
  dbPosts,        \* the posts table, rows in insertion order
  dbProfiles,     \* the profiles table, rows in insertion order
  nextId,         \* the id (and created_at) the next inserted post gets
  acts,           \* requests started by clicks, and other clients' statements, so far
  clientSession,  \* the user the supabase client holds a session for
  authEvents,     \* onAuthStateChange notifications not yet delivered
  channels,       \* the open realtime channels, each the user id it filters on
  rtQueue,        \* change-feed events not yet delivered to the handler
  net,            \* requests in flight, a bag of request records
  \* App.jsx
  session,        \* useState(null)
  getSessionPending,
  \* Auth.jsx
  authMounted, authLoading, authError, authMessage,
  \* PostFeed.jsx
  feedKey,        \* the key of the mounted PostFeed, NoUser when none is
  posts, user, newPostContent, isPosting, loading, error,
  \* observation
  console,        \* what the last handler wrote with console.error, as words
  lastOp          \* the handler that ran last ("backend": none of the client's)

backendVars == <<dbPosts, dbProfiles, nextId, acts, clientSession, authEvents,
                 channels, rtQueue, net>>
appVars == <<session, getSessionPending>>
authVars == <<authMounted, authLoading, authError, authMessage>>
feedVars == <<feedKey, posts, user, newPostContent, isPosting, loading, error>>
vars == <<backendVars, appVars, authVars, feedVars, console, lastOp>>

\* ----------------------------------------------------------- pure helpers
\* String.prototype.trim on a sequence of characters.
RECURSIVE TrimStart(_)
TrimStart(s) == IF s # <<>> /\ Head(s) = " " THEN TrimStart(Tail(s)) ELSE s

RECURSIVE TrimEnd(_)
TrimEnd(s) ==
  IF s # <<>> /\ s[Len(s)] = " " THEN TrimEnd(SubSeq(s, 1, Len(s) - 1)) ELSE s

Trim(s) == TrimEnd(TrimStart(s))

\* String.prototype.includes, on sequences of words.
Includes(s, pat) ==
  \E i \in 0..(Len(s) - Len(pat)) : SubSeq(s, i + 1, i + Len(pat)) = pat

\* email.split('@')[0]
RECURSIVE LocalPart(_)
LocalPart(e) ==
  IF e = <<>> \/ Head(e) = "@" THEN <<>> ELSE <<Head(e)>> \o LocalPart(Tail(e))

\* email.split('@')[0] || `user_${id.slice(0, 8)}`
DeriveUsername(e, id) == IF LocalPart(e) # <<>> THEN LocalPart(e) ELSE <<"user_", id>>

\* ------------------------------------------------------------ the backend
\* A row of the posts table, with the columns the feed selects. The table
\* stamps created_at itself; its clock advances with every insert.
Row(id, content, uid) ==
  [id |-> id, content |-> content, created_at |-> id, user_id |-> uid]

\* Insert one row into a list sorted by created_at, newest first.
RECURSIVE InsertDesc(_, _)
InsertDesc(r, sorted) ==
  IF sorted = <<>> THEN <<r>>
  ELSE IF r.created_at >= Head(sorted).created_at THEN <<r>> \o sorted
  ELSE <<Head(sorted)>> \o InsertDesc(r, Tail(sorted))

RECURSIVE SortDesc(_)
SortDesc(rows) ==
  IF rows = <<>> THEN <<>> ELSE InsertDesc(Head(rows), SortDesc(Tail(rows)))

SortSkipped(rows) == rows

\* .order('created_at', { ascending: false })
OrderByCreatedAt(rows) == SortDesc(rows)

\* from('posts').select(...).order(...): every row, newest first.
SelectPosts == OrderByCreatedAt(dbPosts)

UpsertInserts(table, row) == Append(table, row)

\* upsert({id, username, ...}, { onConflict: 'id' }) on the profiles table:
\* the row of that id is updated where there is one, inserted where not.
Upsert(table, row) ==
  IF \E i \in 1..Len(table) : table[i].id = row.id
  THEN [i \in 1..Len(table) |-> IF table[i].id = row.id THEN row ELSE table[i]]
  ELSE Append(table, row)

\* A request in flight. stage is "sent" until the backend has served it.
Req(kind, uid, text, tag, live) ==
  [kind |-> kind, stage |-> "sent", live |-> live, uid |-> uid, text |-> text,
   tag |-> tag, msg |-> Null, rows |-> <<>>]

One(r) == SetToBag({r})
Pending(kind, stage) == {r \in BagToSet(net) : r.kind = kind /\ r.stage = stage}
InFlight(kind) == {r \in BagToSet(net) : r.kind = kind}
RECURSIVE CountOf(_, _)
CountOf(S, b) ==
  IF S = {} THEN 0
  ELSE LET r == CHOOSE x \in S : TRUE IN CopiesIn(r, b) + CountOf(S \ {r}, b)

AuthKinds == {"signIn", "signUp", "authUpsert"}
FeedKinds == {"fetch", "insert", "sample", "getUser", "feedUpsert"}

\* The requests of an unmounted component: their continuations still run, but
\* every setState they call is dropped.
Orphan(b, kinds) ==
  LET dead(r) == IF r.kind \in kinds THEN [r EXCEPT !.live = FALSE] ELSE r
      S == {dead(r) : r \in BagToSet(b)}
  IN  [s \in S |-> CountOf({r \in BagToSet(b) : dead(r) = s}, b)]

\* The change feed: a write to a row an open channel's filter matches is
\* queued for the handler.
Matches(row) == \E i \in 1..Len(channels) : channels[i] = row.user_id
Publish(q, row, event) == IF Matches(row) THEN Append(q, event) ELSE q

\* -------------------------------------------------------------------- Init
FeedInitial ==
  /\ posts = <<>>
  /\ user = NoUser
  /\ newPostContent = <<>>
  /\ isPosting = FALSE
  /\ loading = TRUE
  /\ error = Null

AuthInitial ==
  /\ authLoading = FALSE
  /\ authError = Null
  /\ authMessage = Null

\* The page has just loaded: App rendered with session null, so the auth form
\* is mounted, and getSession() is pending. The client may hold a session
\* persisted by an earlier visit.
Init ==
  /\ dbPosts = <<>>
  /\ dbProfiles = <<>>
  /\ nextId = 1
  /\ acts = 0
  /\ clientSession \in {NoUser} \cup Users
  /\ authEvents = <<>>
  /\ channels = <<>>
  /\ rtQueue = <<>>
  /\ net = EmptyBag
  /\ session = NoUser
  /\ getSessionPending = TRUE
  /\ authMounted = TRUE
  /\ AuthInitial
  /\ feedKey = NoUser
  /\ FeedInitial
  /\ console = <<>>
  /\ lastOp = "load"

FinallySkipped(flag) == flag

\* finally { setLoading(false) } / finally { setIsPosting(false) }
Finally(flag) == FALSE

\* A handler that writes no console.error line.
Quiet == console' = <<>>

\* ----------------------------------------------------------------- App.jsx
\* supabase.channel('realtime_posts').on('postgres_changes', {filter:
\* `user_id=eq.${user.id}`}, handler).subscribe()
Subscribe(chs, uid) == Append(chs, uid)

RemoveChannelSkipped(chs) == chs

\* supabase.removeChannel(channel), of the channel the effect opened.
RemoveChannel(chs) == SubSeq(chs, 1, Len(chs) - 1)

\* The cleanup of the subscription effect, which opened a channel only once
\* user was set (if (!user?.id) return).
Cleanup(chs, usr) == IF usr # NoUser THEN RemoveChannel(chs) ELSE chs

FeedFresh ==
  /\ posts' = <<>>
  /\ user' = NoUser
  /\ newPostContent' = <<>>
  /\ isPosting' = FALSE
  /\ loading' = TRUE
  /\ error' = Null

AuthFresh ==
  /\ authLoading' = FALSE
  /\ authError' = Null
  /\ authMessage' = Null

\* setSession(s) and the render it causes: {!session ? <Auth /> :
\* <PostFeed key={session.user.id} />}. A component that leaves the tree loses
\* its state and runs its effect cleanups (removeChannel); a PostFeed that
\* enters it runs its mount effects, initializeUser() and fetchPosts(), each up
\* to its first await.
SetSession(s) ==
  /\ session' = s
  /\ IF s = NoUser
     THEN /\ authMounted' = TRUE
          /\ UNCHANGED <<authLoading, authError, authMessage>>
          /\ feedKey' = NoUser
          /\ FeedFresh
          /\ channels' = Cleanup(channels, user)
          /\ rtQueue' = <<>>
          /\ net' = Orphan(net, FeedKinds)
     ELSE /\ authMounted' = FALSE
          /\ AuthFresh
          /\ IF feedKey = s
             THEN /\ UNCHANGED <<feedVars, channels, rtQueue>>
                  /\ net' = Orphan(net, AuthKinds)
             ELSE /\ feedKey' = s
                  /\ FeedFresh
                  /\ channels' = Cleanup(channels, user)
                  /\ rtQueue' = <<>>
                  /\ net' = Orphan(net, AuthKinds \cup FeedKinds)
                            (+) One(Req("getUser", NoUser, <<>>, "", TRUE))
                            (+) One(Req("fetch", NoUser, <<>>, "", TRUE))

\* supabase.auth.getSession().then(({ data: { session } }) => setSession(session))
GetSessionResolve ==
  /\ getSessionPending
  /\ getSessionPending' = FALSE
  /\ SetSession(clientSession)
  /\ lastOp' = "getSession"
  /\ UNCHANGED <<dbPosts, dbProfiles, nextId, acts, clientSession, authEvents>>
  /\ Quiet

AuthNotifyUnheard ==
  /\ authEvents # <<>>
  /\ authEvents' = Tail(authEvents)
  /\ lastOp' = "authStateChange"
  /\ Quiet
  /\ UNCHANGED <<dbPosts, dbProfiles, nextId, acts, clientSession, channels, rtQueue,
                 net, appVars, authVars, feedVars>>

\* onAuthStateChange((_event, session) => setSession(session))
AuthNotify ==
  /\ authEvents # <<>>
  /\ authEvents' = Tail(authEvents)
  /\ SetSession(Head(authEvents))
  /\ lastOp' = IF channels # <<>> /\ feedKey' # feedKey THEN "unsubscribed"
               ELSE "authStateChange"
  /\ UNCHANGED <<dbPosts, dbProfiles, nextId, acts, clientSession,
                 getSessionPending>>
  /\ Quiet

\* ---------------------------------------------------------------- Auth.jsx
KeptOnSubmit(cur) == cur

\* setError(null); setMessage(null) at the start of handleAuth.
ClearOnSubmit(cur) == Null

HandleAuthAlwaysEnabled(type, email, password) ==
  /\ acts < MaxActs
  /\ acts' = acts + 1
  /\ authMounted
  /\ authLoading' = TRUE
  /\ authError' = ClearOnSubmit(authError)
  /\ authMessage' = ClearOnSubmit(authMessage)
  /\ net' = net (+) One(IF type = "LOGIN"
                         THEN Req("signIn", NoUser, email, password, TRUE)
                         ELSE Req("signUp", NoUser, email, "", TRUE))
  /\ lastOp' = "handleAuth"
  /\ UNCHANGED <<dbPosts, dbProfiles, nextId, clientSession, authEvents,
                 channels, rtQueue, appVars, authMounted, feedVars>>
  /\ Quiet

\* handleAuth(type) up to the await of signInWithPassword / signUp. Both
\* buttons are disabled while loading.
HandleAuth(type, email, password) ==
  /\ acts < MaxActs
  /\ acts' = acts + 1
  /\ authMounted
  /\ ~authLoading
  /\ authLoading' = TRUE
  /\ authError' = ClearOnSubmit(authError)
  /\ authMessage' = ClearOnSubmit(authMessage)
  /\ net' = net (+) One(IF type = "LOGIN"
                         THEN Req("signIn", NoUser, email, password, TRUE)
                         ELSE Req("signUp", NoUser, email, "", TRUE))
  /\ lastOp' = "handleAuth"
  /\ UNCHANGED <<dbPosts, dbProfiles, nextId, clientSession, authEvents,
                 channels, rtQueue, appVars, authMounted, feedVars>>
  /\ Quiet

\* The auth service accepts signInWithPassword with the account's password:
\* it stores the session in the client and notifies the subscribers.
SignInServe ==
  \E r \in Pending("signIn", "sent") :
    /\ r.tag = PasswordOf(UserOfEmail(r.text))
    /\ clientSession' = UserOfEmail(r.text)
    /\ authEvents' = Append(authEvents, UserOfEmail(r.text))
    /\ net' = (net (-) One(r)) (+) One([r EXCEPT !.stage = "ok", !.uid = UserOfEmail(r.text)])
    /\ lastOp' = "backend"
    /\ Quiet
    /\ UNCHANGED <<dbPosts, dbProfiles, nextId, acts, channels, rtQueue, appVars,
                   authVars, feedVars>>

AuthCatchUnfiltered(msg, cur) == IF msg # <<>> THEN msg ELSE AuthFailed

\* catch (error): only a message without 'row-level security policy' reaches
\* setError, as error.message || 'Authentication failed'; cur is the error
\* the form shows when the catch leaves it alone.
AuthCatch(msg, cur) ==
  IF ~Includes(msg, RlsPattern)
  THEN (IF msg # <<>> THEN msg ELSE AuthFailed)
  ELSE cur

\* The inner try/catch around each profile upsert: the failure is logged and
\* the form's error stays as it is.
ProfileCatchSurfaced(msg, cur) == AuthCatch(msg, cur)

ProfileCatch(msg, cur) == cur

\* The message a successful sign-up shows.
SignUpMessage == VerificationSent

\* handleAuth after the await of signInWithPassword / signUp, when the
\* service answered with an error (any request may, with any of its
\* messages): throw authError, the catch, finally.
AuthReject ==
  \E r \in Pending("signIn", "sent") \cup Pending("signUp", "sent"),
     m \in ErrorMessages :
    /\ authError' = IF r.live THEN AuthCatch(m, authError) ELSE authError
    /\ authLoading' = IF r.live THEN Finally(authLoading) ELSE authLoading
    /\ console' = <<"Auth error:">> \o m
    /\ net' = net (-) One(r)
    /\ lastOp' = IF ~r.live THEN "orphan"
                 ELSE IF r.kind = "signIn" THEN "signInFailed" ELSE "signUpFailed"
    /\ UNCHANGED <<dbPosts, dbProfiles, nextId, acts, clientSession, authEvents,
                   channels, rtQueue, appVars, authMounted, authMessage, feedVars>>

\* handleAuth after the await when the service accepted (a sign-up starts no
\* session: the account awaits its e-mail verification): the sign-up message,
\* then up to the await of the profile upsert.
AuthAccept ==
  \E r \in Pending("signIn", "ok") \cup Pending("signUp", "sent") :
    LET uid == UserOfEmail(r.text) IN
    /\ authMessage' = IF r.live /\ r.kind = "signUp" THEN SignUpMessage ELSE authMessage
    /\ net' = (net (-) One(r))
              (+) One(Req("authUpsert", uid,
                          DeriveUsername(IF r.kind = "signUp" THEN r.text
                                         ELSE EmailOf(uid), uid),
                          IF r.kind = "signUp" THEN "SIGNUP" ELSE "LOGIN", r.live))
    /\ lastOp' = IF ~r.live THEN "orphan"
                 ELSE IF r.kind = "signIn" THEN "signInAccepted" ELSE "signUpAccepted"
    /\ Quiet
    /\ UNCHANGED <<dbPosts, dbProfiles, nextId, acts, clientSession, authEvents,
                   channels, rtQueue, appVars, authMounted, authError, authLoading,
                   feedVars>>

\* The profiles table serves the upsert (it applies it, answers with an error
\* that handleAuth does not read, or the call throws), and handleAuth runs to
\* its end: the inner catch, then finally.
AuthUpsertResolve ==
  \E r \in InFlight("authUpsert"), outcome \in {"ok", "error", "throw"} :
    /\ dbProfiles' = IF outcome = "ok"
                     THEN Upsert(dbProfiles, [id |-> r.uid, username |-> r.text,
                                              avatar_url |-> Null])
                     ELSE dbProfiles
    /\ console' = IF outcome # "throw" THEN <<>>
                  ELSE IF r.tag = "SIGNUP"
                  THEN <<"Profile creation failed (non-critical):">>
                  ELSE <<"Profile update failed:">>
    /\ authError' = IF r.live /\ outcome = "throw"
                    THEN ProfileCatch(NetworkError, authError) ELSE authError
    /\ authLoading' = IF r.live THEN Finally(authLoading) ELSE authLoading
    /\ net' = net (-) One(r)
    /\ lastOp' = IF ~r.live THEN "orphan"
                 ELSE IF r.tag = "SIGNUP" THEN "signUpDone" ELSE "signInDone"
    /\ UNCHANGED <<dbPosts, nextId, acts, clientSession, authEvents, channels,
                   rtQueue, appVars, authMounted, authMessage, feedVars>>

\* ------------------------------------------------------------ PostFeed.jsx
\* if (loading && posts.length === 0) return <spinner />: nothing else of the
\* feed is on the page then.
FeedRendered == feedKey # NoUser /\ ~(loading /\ posts = <<>>)

ConfirmedAppend(prevPosts, newPost) == Append(prevPosts, newPost)

\* The state updaters handed to setPosts.
ConfirmedPrepend(prevPosts, newPost) == <<newPost>> \o prevPosts

RealtimeInsertLast(prev, new) == Append(prev, new)

RealtimeInsert(prev, new) == <<new>> \o prev

RealtimeDeleteFirst(prev, old) ==
  IF \E i \in 1..Len(prev) : prev[i].id = old.id
  THEN LET k == CHOOSE i \in 1..Len(prev) :
                  /\ prev[i].id = old.id
                  /\ \A j \in 1..(i - 1) : prev[j].id # old.id
       IN  SubSeq(prev, 1, k - 1) \o SubSeq(prev, k + 1, Len(prev))
  ELSE prev

RealtimeDelete(prev, old) ==
  LET keep(post) == post.id # old.id IN SelectSeq(prev, keep)

RealtimeUpdateUpsert(prev, new) ==
  IF \E i \in 1..Len(prev) : prev[i].id = new.id
  THEN [i \in 1..Len(prev) |-> IF prev[i].id = new.id THEN new ELSE prev[i]]
  ELSE <<new>> \o prev

RealtimeUpdate(prev, new) ==
  [i \in 1..Len(prev) |-> IF prev[i].id = new.id THEN new ELSE prev[i]]

\* if (!newPostContent.trim() || !user?.id) return;
SubmitGuardUntrimmed(content, usr) == content = <<>> \/ usr = NoUser

SubmitGuard(content, usr) == Trim(content) = <<>> \/ usr = NoUser

\* onChange of the textarea, which the form shows once user is set and
\* disables while posting.
TypeDraft(c) ==
  /\ FeedRendered
  /\ user # NoUser
  /\ ~isPosting
  /\ c # newPostContent
  /\ newPostContent' = c
  /\ lastOp' = "type"
  /\ UNCHANGED <<backendVars, appVars, authVars, feedKey, posts, user, isPosting,
                 loading, error>>
  /\ Quiet

\* handleSubmitPost up to the await of the insert. The submit button is
\* disabled while isPosting; what else the page requires of a submission
\* (a user, a draft that is not blank) the handler checks for itself.
HandleSubmitPost ==
  /\ feedKey # NoUser
  /\ ~isPosting
  /\ \/ /\ SubmitGuard(newPostContent, user)
        /\ lastOp' = "submitIgnored"
        /\ UNCHANGED <<acts, net, isPosting, error>>
     \/ /\ ~SubmitGuard(newPostContent, user)
        /\ acts < MaxActs
        /\ acts' = acts + 1
        /\ isPosting' = TRUE
        /\ error' = Null
        /\ net' = net (+) One(Req("insert", user, newPostContent, "", TRUE))
        /\ lastOp' = "submit"
  /\ UNCHANGED <<dbPosts, dbProfiles, nextId, clientSession, authEvents,
                 channels, rtQueue, appVars, authVars, feedKey, posts, user,
                 newPostContent, loading>>
  /\ Quiet

\* onClick of "Create Sample Post", up to the await of the insert. The button
\* is on the page when the list is empty and user is set.
ClickSample ==
  /\ acts < MaxActs
  /\ acts' = acts + 1
  /\ FeedRendered
  /\ posts = <<>>
  /\ user # NoUser
  /\ net' = net (+) One(Req("sample", user, SampleContent, "", TRUE))
  /\ lastOp' = "sampleClick"
  /\ UNCHANGED <<dbPosts, dbProfiles, nextId, clientSession, authEvents,
                 channels, rtQueue, appVars, authVars, feedVars>>
  /\ Quiet

\* The posts table runs an insert (of handleSubmitPost, kind "insert", or of
\* the sample button, kind "sample"): the row is stored and published to the
\* change feed; .select(...).single() returns it.
InsertServe ==
  \E r \in Pending("insert", "sent") \cup Pending("sample", "sent") :
    /\ LET row == Row(nextId, r.text, r.uid) IN
         /\ dbPosts' = Append(dbPosts, row)
         /\ rtQueue' = Publish(rtQueue, row, [eventType |-> "INSERT", new |-> row])
         /\ net' = (net (-) One(r)) (+) One([r EXCEPT !.stage = "ok", !.rows = <<row>>])
    /\ nextId' = nextId + 1
    /\ lastOp' = "backend"
    /\ Quiet
    /\ UNCHANGED <<dbProfiles, acts, clientSession, authEvents, channels, appVars,
                   authVars, feedVars>>

\* catch (err) of handleSubmitPost: err.message || 'Failed to create post.
\* Please try again.'
SubmitCatch(msg) == IF msg # <<>> THEN msg ELSE CreateFailed

\* handleSubmitPost after the await, the insert confirmed: the returned row
\* is prepended and the draft cleared; finally setIsPosting(false).
InsertResolve ==
  \E r \in Pending("insert", "ok") :
    /\ net' = net (-) One(r)
    /\ posts' = IF r.live THEN ConfirmedPrepend(posts, r.rows[1]) ELSE posts
    /\ newPostContent' = IF r.live THEN <<>> ELSE newPostContent
    /\ isPosting' = IF r.live THEN Finally(isPosting) ELSE isPosting
    /\ lastOp' = IF r.live THEN "submitOk" ELSE "orphan"
    /\ Quiet
    /\ UNCHANGED <<dbPosts, dbProfiles, nextId, acts, clientSession, authEvents,
                   channels, rtQueue, appVars, authVars, feedKey, user, loading, error>>

\* handleSubmitPost after the await, the insert refused (insertError is
\* thrown) or the call itself throwing: the catch, then finally.
InsertReject ==
  \E r \in Pending("insert", "sent"), m \in StoreErrorMessages \cup {NetworkError} :
    /\ net' = net (-) One(r)
    /\ error' = IF r.live THEN SubmitCatch(m) ELSE error
    /\ isPosting' = IF r.live THEN Finally(isPosting) ELSE isPosting
    /\ console' = <<"Failed to create post:">>
    /\ lastOp' = IF r.live THEN "submitFailed" ELSE "orphan"
    /\ UNCHANGED <<dbPosts, dbProfiles, nextId, acts, clientSession, authEvents,
                   channels, rtQueue, appVars, authVars, feedKey, posts, user,
                   newPostContent, loading>>

\* The sample button's handler after the await of its insert, whose result
\* (the row stored, or an error returned) it does not read: await
\* fetchPosts(), up to the await of the select.
SampleResolve ==
  \E r \in Pending("sample", "ok") \cup Pending("sample", "sent") :
    /\ loading' = IF r.live THEN TRUE ELSE loading
    /\ error' = IF r.live THEN Null ELSE error
    /\ net' = (net (-) One(r)) (+) One(Req("fetch", r.uid, <<>>, "sample", r.live))
    /\ lastOp' = IF r.live THEN "sampleRefetch" ELSE "orphan"
    /\ Quiet
    /\ UNCHANGED <<dbPosts, dbProfiles, nextId, acts, clientSession, authEvents,
                   channels, rtQueue, appVars, authVars, feedKey, posts, user,
                   newPostContent, isPosting>>

\* The sample button's handler when the insert call throws: its catch.
SampleThrow ==
  \E r \in Pending("sample", "sent") :
    /\ error' = IF r.live THEN SampleFailed ELSE error
    /\ net' = net (-) One(r)
    /\ lastOp' = IF r.live THEN "sampleFailed" ELSE "orphan"
    /\ Quiet
    /\ UNCHANGED <<dbPosts, dbProfiles, nextId, acts, clientSession, authEvents,
                   channels, rtQueue, appVars, authVars, feedKey, posts, user,
                   newPostContent, isPosting, loading>>

\* The posts table runs a select.
FetchServe ==
  \E r \in Pending("fetch", "sent") :
    /\ net' = (net (-) One(r)) (+) One([r EXCEPT !.stage = "ok", !.rows = SelectPosts])
    /\ lastOp' = "backend"
    /\ Quiet
    /\ UNCHANGED <<dbPosts, dbProfiles, nextId, acts, clientSession, authEvents,
                   channels, rtQueue, appVars, authVars, feedVars>>

\* fetchPosts after the await, data an array: setPosts(data); finally
\* setLoading(false).
FetchResolve ==
  \E r \in Pending("fetch", "ok") :
    /\ net' = net (-) One(r)
    /\ posts' = IF r.live THEN r.rows ELSE posts
    /\ loading' = IF r.live THEN Finally(loading) ELSE loading
    /\ lastOp' = IF ~r.live THEN "orphan"
                 ELSE IF r.tag = "sample" THEN "sampleFetched" ELSE "fetched"
    /\ Quiet
    /\ UNCHANGED <<dbPosts, dbProfiles, nextId, acts, clientSession, authEvents,
                   channels, rtQueue, appVars, authVars, feedKey, user,
                   newPostContent, isPosting, error>>

\* if (fetchError) throw fetchError; if (data && Array.isArray(data)) ...
\* else throw new Error('Invalid data format received'): what is thrown.
FetchThrown(failure) == IF failure = "error" THEN RlsDenied ELSE InvalidFormat

FetchCatchSurfaced(msg) == IF msg # <<>> THEN msg ELSE ReloadPrompt

\* catch (err): setError('Failed to load posts. Please refresh the page.')
FetchCatch(msg) == ReloadPrompt

\* fetchPosts after the await, the select answering with an error (thrown as
\* fetchError) or with data that is no array (thrown as 'Invalid data format
\* received'): the catch, then finally.
FetchReject ==
  \E r \in Pending("fetch", "sent"), failure \in FetchFailures :
    /\ net' = net (-) One(r)
    /\ error' = IF r.live THEN FetchCatch(FetchThrown(failure)) ELSE error
    /\ loading' = IF r.live THEN Finally(loading) ELSE loading
    /\ console' = <<"Failed to fetch posts:">> \o FetchThrown(failure)
    /\ lastOp' = IF r.live THEN "fetchFailed" ELSE "orphan"
    /\ UNCHANGED <<dbPosts, dbProfiles, nextId, acts, clientSession, authEvents,
                   channels, rtQueue, appVars, authVars, feedKey, posts, user,
                   newPostContent, isPosting>>

\* initializeUser after the await of getUser(): without a user it logs and
\* returns; with one it calls setUser, whose render runs the subscription
\* effect (a channel filtered on user.id), and goes on to the await of the
\* profile upsert.
GetUserResolve ==
  \E r \in InFlight("getUser") :
    /\ \/ /\ clientSession # NoUser
          /\ user' = IF r.live THEN clientSession ELSE user
          /\ channels' = IF r.live THEN Subscribe(channels, clientSession) ELSE channels
          /\ rtQueue' = IF r.live THEN <<>> ELSE rtQueue
          /\ net' = (net (-) One(r))
                    (+) One(Req("feedUpsert", clientSession,
                                DeriveUsername(EmailOf(clientSession), clientSession),
                                "", r.live))
          /\ lastOp' = "getUser"
          /\ Quiet
       \/ /\ net' = net (-) One(r)
          /\ console' = <<"User not authenticated:">>
          /\ lastOp' = "getUserFailed"
          /\ UNCHANGED <<user, channels, rtQueue>>
    /\ UNCHANGED <<dbPosts, dbProfiles, nextId, acts, clientSession, authEvents,
                   appVars, authVars, feedKey, posts, newPostContent, isPosting,
                   loading, error>>

\* The profiles table serves initializeUser's upsert, and the handler ends:
\* an error, returned or thrown, is logged.
FeedUpsertResolve ==
  \E r \in InFlight("feedUpsert"), outcome \in {"ok", "error"} :
    /\ dbProfiles' = IF outcome = "ok"
                     THEN Upsert(dbProfiles, [id |-> r.uid, username |-> r.text,
                                              avatar_url |-> Null])
                     ELSE dbProfiles
    /\ console' = IF outcome = "ok" THEN <<>> ELSE <<"Profile initialization error:">>
    /\ net' = net (-) One(r)
    /\ lastOp' = IF outcome = "ok" /\ \E i \in 1..Len(dbProfiles) : dbProfiles[i].id = r.uid
                 THEN "feedUpsertAgain" ELSE "feedUpsert"
    /\ UNCHANGED <<dbPosts, nextId, acts, clientSession, authEvents, channels,
                   rtQueue, appVars, authVars, feedVars>>

\* The subscription's handler, run on the oldest undelivered event.
RealtimeDeliver ==
  /\ rtQueue # <<>>
  /\ rtQueue' = Tail(rtQueue)
  /\ LET payload == Head(rtQueue) IN
       \/ /\ payload.eventType = "INSERT"
          /\ posts' = RealtimeInsert(posts, payload.new)
          /\ lastOp' = "rtInsert"
          /\ UNCHANGED <<net, loading, error>>
       \/ /\ payload.eventType = "DELETE"
          /\ posts' = RealtimeDelete(posts, payload.old)
          /\ lastOp' = IF Len(posts') + 1 < Len(posts) THEN "rtDeleteSeveral"
                       ELSE "rtDelete"
          /\ UNCHANGED <<net, loading, error>>
       \/ /\ payload.eventType = "UPDATE"
          /\ posts' = RealtimeUpdate(posts, payload.new)
          /\ lastOp' = "rtUpdate"
          /\ UNCHANGED <<net, loading, error>>
       \/ /\ payload.eventType \notin {"INSERT", "DELETE", "UPDATE"}
          /\ loading' = TRUE
          /\ error' = Null
          /\ net' = net (+) One(Req("fetch", NoUser, <<>>, "", TRUE))
          /\ lastOp' = "rtFallback"
          /\ UNCHANGED posts
  /\ UNCHANGED <<dbPosts, dbProfiles, nextId, acts, clientSession, authEvents,
                 channels, appVars, authVars, feedKey, user, newPostContent,
                 isPosting>>
  /\ Quiet

\* onClick={() => supabase.auth.signOut()}: the client drops its session and
\* notifies the subscribers.
Logout ==
  /\ acts < MaxActs
  /\ acts' = acts + 1
  /\ FeedRendered
  /\ user # NoUser
  /\ clientSession' = NoUser
  /\ authEvents' = Append(authEvents, NoUser)
  /\ lastOp' = "logout"
  /\ UNCHANGED <<dbPosts, dbProfiles, nextId, channels, rtQueue, net,
                 appVars, authVars, feedVars>>
  /\ Quiet

\* ------------------------------------------------- other clients of the store
OtherInsert(u) ==
  /\ acts < MaxActs
  /\ acts' = acts + 1
  /\ LET row == Row(nextId, OtherContent, u) IN
       /\ dbPosts' = Append(dbPosts, row)
       /\ rtQueue' = Publish(rtQueue, row, [eventType |-> "INSERT", new |-> row])
  /\ nextId' = nextId + 1
  /\ lastOp' = "backend"
  /\ UNCHANGED <<dbProfiles, clientSession, authEvents, channels, net,
                 appVars, authVars, feedVars>>
  /\ Quiet

OtherUpdate(i) ==
  /\ acts < MaxActs
  /\ acts' = acts + 1
  /\ dbPosts[i].content # EditedContent
  /\ LET row == [dbPosts[i] EXCEPT !.content = EditedContent] IN
       /\ dbPosts' = [dbPosts EXCEPT ![i] = row]
       /\ rtQueue' = Publish(rtQueue, row,
                             [eventType |-> "UPDATE", new |-> row, old |-> dbPosts[i]])
  /\ lastOp' = "backend"
  /\ UNCHANGED <<dbProfiles, nextId, clientSession, authEvents, channels, net,
                 appVars, authVars, feedVars>>
  /\ Quiet

OtherDelete(i) ==
  /\ acts < MaxActs
  /\ acts' = acts + 1
  /\ dbPosts' = SubSeq(dbPosts, 1, i - 1) \o SubSeq(dbPosts, i + 1, Len(dbPosts))
  /\ rtQueue' = Publish(rtQueue, dbPosts[i],
                        [eventType |-> "DELETE", old |-> dbPosts[i]])
  /\ lastOp' = "backend"
  /\ UNCHANGED <<dbProfiles, nextId, clientSession, authEvents, channels, net,
                 appVars, authVars, feedVars>>
  /\ Quiet

\* An event of a type the handler's switch does not name.
OtherEvent ==
  /\ acts < MaxActs
  /\ acts' = acts + 1
  /\ channels # <<>>
  /\ rtQueue' = Append(rtQueue, [eventType |-> "TRUNCATE"])
  /\ lastOp' = "backend"
  /\ UNCHANGED <<dbPosts, dbProfiles, nextId, clientSession, authEvents, channels,
                 net, appVars, authVars, feedVars>>
  /\ Quiet

\* ------------------------------------------------------------ specification
Next ==
  \/ GetSessionResolve
  \/ AuthNotify
  \/ \E type \in {"LOGIN", "SIGNUP"}, e \in Emails, pw \in Passwords :
       HandleAuth(type, e, pw)
  \/ SignInServe
  \/ AuthReject
  \/ AuthAccept
  \/ AuthUpsertResolve
  \/ \E c \in Drafts : TypeDraft(c)
  \/ HandleSubmitPost
  \/ ClickSample
  \/ InsertServe
  \/ InsertResolve
  \/ InsertReject
  \/ SampleResolve
  \/ SampleThrow
  \/ FetchServe
  \/ FetchResolve
  \/ FetchReject
  \/ GetUserResolve
  \/ FeedUpsertResolve
  \/ RealtimeDeliver
  \/ Logout
  \/ \E u \in Authors : OtherInsert(u)
  \/ \E i \in 1..Len(dbPosts) : OtherUpdate(i)
  \/ \E i \in 1..Len(dbPosts) : OtherDelete(i)
  \/ OtherEvent

Spec == Init /\ [][Next]_vars

\* The client library calls every onAuthStateChange subscriber with each
\* session change, and the event loop runs the promise continuations of
\* handleAuth once their requests are answered.
LiveSpec ==
  /\ Spec
  /\ WF_vars(AuthNotify)
  /\ WF_vars(AuthAccept)
  /\ WF_vars(AuthUpsertResolve)

\* Moreover no awaited request stays unanswered for ever: one the backend
\* has not served ends as a failure, and the continuations of fetchPosts
\* and handleSubmitPost run as those of handleAuth do.
AnsweredSpec ==
  /\ LiveSpec
  /\ WF_vars(AuthReject)
  /\ WF_vars(InsertReject)
  /\ WF_vars(InsertResolve)
  /\ WF_vars(FetchReject)
  /\ WF_vars(FetchResolve)

\* ------------------------------------------------------------- properties
Ids(l) == {l[i].id : i \in 1..Len(l)}
Occurrences(l, id) == Cardinality({i \in 1..Len(l) : l[i].id = id})
Blank(c) == \A i \in 1..Len(c) : c[i] = " "
SortedDesc(l) ==
  \A i, j \in 1..Len(l) : i < j => l[i].created_at >= l[j].created_at

\* l without its rows of the given id, the others in their order.
RECURSIVE Without(_, _)
Without(l, id) ==
  IF l = <<>> THEN <<>>
  ELSE IF Head(l).id = id THEN Without(Tail(l), id)
  ELSE <<Head(l)>> \o Without(Tail(l), id)

\* C1: in every reachable state the rendered list holds at most one entry
\* per post id.
C1_OneEntryPerId == \A id \in Ids(posts) : Occurrences(posts, id) = 1

\* C2: a submission whose draft is empty or whitespace-only, or made without
\* a user, issues no insert request and leaves the list, the busy flag and
\* the error as they are.
C2_BlankSubmitIsNoOp ==
  [][(HandleSubmitPost /\ (Blank(newPostContent) \/ user = NoUser))
       => /\ net' = net
          /\ dbPosts' = dbPosts
          /\ posts' = posts
          /\ isPosting' = isPosting
          /\ error' = error]_vars

C2_Witness ==
  /\ lastOp = "submitIgnored"
  /\ user # NoUser
  /\ newPostContent # <<>>
  /\ Blank(newPostContent)

\* C3: a realtime INSERT event turns the list L into the event's row followed
\* by L: one more row of that id, at the front, the others kept in order.
C3_InsertPrepends ==
  [][(RealtimeDeliver /\ Head(rtQueue).eventType = "INSERT")
       => LET new == Head(rtQueue).new IN
          /\ Len(posts') = Len(posts) + 1
          /\ posts'[1] = new
          /\ \A i \in 1..Len(posts) : posts'[i + 1] = posts[i]
          /\ Occurrences(posts', new.id) = Occurrences(posts, new.id) + 1]_vars

C3_Witness == lastOp = "rtInsert" /\ Len(posts) >= 2

\* C4: a realtime DELETE event for id X removes every row of id X, however
\* many there are, and keeps the other rows in their order.
C4_DeleteRemovesAll ==
  [][(RealtimeDeliver /\ Head(rtQueue).eventType = "DELETE")
       => LET X == Head(rtQueue).old.id IN
          /\ posts' = Without(posts, X)
          /\ X \notin Ids(posts')
          /\ X \notin Ids(posts) => posts' = posts]_vars

C4_Witness == lastOp = "rtDeleteSeveral"

\* C5: a realtime UPDATE event for id X puts the event's row in the place of
\* every row of id X, leaves the other rows where they are and keeps the
\* length of the list; for an id the list does not hold it adds nothing.
C5_UpdateReplacesInPlace ==
  [][(RealtimeDeliver /\ Head(rtQueue).eventType = "UPDATE")
       => LET new == Head(rtQueue).new IN
          /\ Len(posts') = Len(posts)
          /\ \A i \in 1..Len(posts) :
               posts'[i] = IF posts[i].id = new.id THEN new ELSE posts[i]
          /\ new.id \notin Ids(posts) => posts' = posts]_vars

C5_Witness ==
  /\ lastOp = "rtUpdate"
  /\ \E i, j \in 1..Len(posts) :
       i < j /\ posts[i].id = posts[j].id /\ posts[i].content = EditedContent
             /\ posts[j].content = EditedContent

\* C6: right after fetchPosts completes successfully the list is the
\* store's response, sorted by created_at, newest first.
C6_FetchedListSorted ==
  [][(FetchResolve /\ lastOp' \in {"fetched", "sampleFetched"})
       => /\ \E r \in Pending("fetch", "ok") :
               r.live /\ posts' = r.rows /\ net' = net (-) One(r)
          /\ SortedDesc(posts')
          /\ ~loading']_vars

C6_Witness ==
  /\ lastOp = "fetched"
  /\ Len(posts) >= 2
  /\ posts[1].created_at > posts[2].created_at

\* C7: a sign-in the auth service accepted, started on the idle form, leads
\* to a state in which the form is not submitting and exactly one of the
\* session and the error message is set.
SignInAccepted == \E r \in Pending("signIn", "ok") : r.live

C7_SignInSettles ==
  SignInAccepted ~> (~authLoading /\ ((session # NoUser) # (authError # Null)))

C7_Witness ==
  /\ session # NoUser
  /\ authError = Null
  /\ ~authLoading
  /\ \E r \in InFlight("authUpsert") : r.tag = "LOGIN"

\* C8: when a sign-up the auth service accepted has run to its end, the form
\* shows the verification message and no error, whatever became of the
\* profile upsert.
C8_SignUpShowsMessage ==
  lastOp = "signUpDone"
    => /\ authMessage = VerificationSent
       /\ authError = Null
       /\ ~authLoading

C8_Witness ==
  /\ lastOp = "signUpDone"
  /\ console = <<"Profile creation failed (non-critical):">>

\* C9, as stated: a failed sign-in is logged; its message is hidden when it
\* contains 'row-level security policy' and is the visible error otherwise.
C9_ErrorIsTheMessage ==
  lastOp = "signInFailed"
    => /\ Head(console) = "Auth error:"
       /\ authMessage = Null
       /\ authError = IF Includes(Tail(console), RlsPattern) THEN Null
                      ELSE Tail(console)

\* C9, amended: ... and is the visible error otherwise, with 'Authentication
\* failed' standing in for an empty message.
C9_ErrorIsTheMessageOrFallback ==
  lastOp = "signInFailed"
    => /\ Head(console) = "Auth error:"
       /\ authMessage = Null
       /\ authError = IF Includes(Tail(console), RlsPattern) THEN Null
                      ELSE IF Tail(console) = <<>> THEN AuthFailed
                      ELSE Tail(console)

C9_Witness ==
  /\ lastOp = "signInFailed"
  /\ Includes(Tail(console), RlsPattern)
  /\ authError = Null

\* C10: with the sample button clicked once on an empty feed, its insert
\* stored, nothing else written and the refetch completed without an error,
\* the store and the list each hold exactly the one sample post of the user.
OneSamplePost(l) ==
  Len(l) = 1 /\ l[1].content = SampleContent /\ l[1].user_id = user

SampleSettled ==
  /\ acts = 1
  /\ user # NoUser
  /\ \E i \in 1..Len(dbPosts) : dbPosts[i].content = SampleContent
  /\ InFlight("sample") = {}
  /\ InFlight("fetch") = {}
  /\ ~loading
  /\ error = Null

C10_SampleYieldsOnePost ==
  SampleSettled => OneSamplePost(dbPosts) /\ OneSamplePost(posts)

\* C11: the profiles table holds at most one row per user id, whatever
\* upserts of signUp, signIn and the feed's initializeUser have run.
C11_OneProfilePerId ==
  \A i, j \in 1..Len(dbProfiles) : dbProfiles[i].id = dbProfiles[j].id => i = j

C11_Witness == lastOp = "feedUpsertAgain" /\ Len(dbProfiles) = 1

\* C12: the mounted auth form has at most one submission in flight (its
\* signIn / signUp request or the profile upsert that follows it), and its
\* busy flag is set exactly while that submission is.
LiveAuth == {r \in BagToSet(net) : r.kind \in AuthKinds /\ r.live}

LiveInserts ==
  {r \in Pending("insert", "sent") \cup Pending("sample", "sent") : r.live}

C13_OneInsertInFlight == CountOf(LiveInserts, net) <= 1

\* C14: the client has at most one realtime channel open, only while a feed
\* with its user set is mounted and filtered on that feed's user id; with no
\* channel open no change-feed event awaits the handler, and the handler
\* runs only for the mounted feed's channel.
C14_ChannelFollowsFeed ==
  /\ Len(channels) <= 1
  /\ \A i \in 1..Len(channels) : channels[i] = feedKey /\ channels[i] = user
  /\ channels = <<>> => rtQueue = <<>>
  /\ lastOp \in {"rtInsert", "rtDelete", "rtDeleteSeveral", "rtUpdate", "rtFallback"}
       => channels = <<feedKey>>

C14_Witness ==
  /\ lastOp = "unsubscribed"
  /\ feedKey = NoUser
  /\ \E i \in 1..Len(dbPosts) : dbPosts[i].user_id \in Users

\* C15: a failed signIn, signUp, fetchPosts or submitPost ends with its busy
\* or loading flag cleared, and no flag of a mounted component stays set for
\* ever.
C15_FlagsReturnToFalse ==
  /\ [](lastOp \in {"signInFailed", "signUpFailed"} => ~authLoading)
  /\ [](lastOp = "fetchFailed" => ~loading)
  /\ [](lastOp = "submitFailed" => ~isPosting)
  /\ authLoading ~> ~authLoading
  /\ isPosting ~> ~isPosting
  /\ (feedKey # NoUser /\ loading) ~> (feedKey = NoUser \/ ~loading)

C15_Witness ==
  /\ lastOp = "submitFailed"
  /\ ~isPosting
  /\ error # Null
  /\ InFlight("insert") = {}

\* C16: fetchPosts answered with an error, or with data that is no array,
\* sets the error to the reload prompt, clears the loading flag and leaves
\* the list as it is.
C16_FetchFailureKeepsList ==
  [][(FetchReject /\ lastOp' = "fetchFailed")
       => /\ error' = ReloadPrompt
          /\ ~loading'
          /\ posts' = posts
          /\ Head(console') = "Failed to fetch posts:"]_vars

C16_Witness ==
  /\ lastOp = "fetchFailed"
  /\ console = <<"Failed to fetch posts:">> \o InvalidFormat
  /\ posts # <<>>
  /\ error = ReloadPrompt
  /\ ~loading

\* C17: handleSubmitPost leaves the list alone when it sends the insert; once
\* the store has confirmed, it puts exactly the stored row in front of the
\* list and clears the draft; on a failure it leaves list and draft as they
\* are and sets the error.
C17_ConfirmedPrependOnly ==
  [][/\ HandleSubmitPost => posts' = posts /\ newPostContent' = newPostContent
     /\ InsertServe => posts' = posts
     /\ (InsertResolve /\ lastOp' = "submitOk")
          => \E r \in Pending("insert", "ok") :
               /\ net' = net (-) One(r)
               /\ r.rows[1].content = newPostContent
               /\ r.rows[1].user_id = user
               /\ posts' = <<r.rows[1]>> \o posts
               /\ newPostContent' = <<>>
     /\ (InsertReject /\ lastOp' = "submitFailed")
          => /\ posts' = posts
             /\ newPostContent' = newPostContent
             /\ error' # Null]_vars

C17_Witness ==
  /\ lastOp = "submitOk"
  /\ Len(posts) >= 2
  /\ posts[1].content = <<"h", "i">>
  /\ posts[2].id # posts[1].id
  /\ newPostContent = <<>>

\* C18: in every reachable state the feed's list is ordered by created_at,
\* newest first.
C18_ListAlwaysSorted == SortedDesc(posts)

\* C19: with a feed mounted and subscribed, no fetch or insert in flight, no
\* change-feed event undelivered, no error shown and every stored post the
\* user's own, the list holds the ids of the stored posts and no others.
Quiescent ==
  /\ feedKey # NoUser
  /\ channels = <<feedKey>>
  /\ InFlight("fetch") \cup InFlight("insert") \cup InFlight("sample") = {}
  /\ rtQueue = <<>>
  /\ ~loading
  /\ error = Null
  /\ \A i \in 1..Len(dbPosts) : dbPosts[i].user_id = user

C19_QuiescentListMatchesStore == Quiescent => Ids(posts) = Ids(dbPosts)

\* C20: the auth form never shows its success message and its error
\* together; a submission starts with both cleared.
C20_MessageXorError ==
  /\ ~(authMessage # Null /\ authError # Null)
  /\ lastOp = "handleAuth" => authMessage = Null /\ authError = Null

C20_Witness ==
  /\ lastOp = "signUpFailed"
  /\ acts = 2
  /\ authError # Null
  /\ authMessage = Null
  /\ dbProfiles # <<>>
  /\ clientSession = NoUser

====
